---------------------------- MODULE Spec2Model ----------------------------
(***************************************************************************)
(* WebSecurity: the vulnerability scan engine (server/scanner.ts), the    *)
(* POST /api/scans handler that drives it (server/routes.ts) and the scan *)
(* storage it records into (server/storage.ts).                           *)
(*                                                                         *)
(* Arrays are sequences.  An optional field that is not set holds the     *)
(* string "undefined"; the optional number daysRemaining is a tagged      *)
(* value (undefined, NaN or a number), see Num.                           *)
(***************************************************************************)
EXTENDS Integers, Sequences, FiniteSets, TLC

(***************************************************************************)
(* JavaScript helpers                                                      *)
(***************************************************************************)

\* Math.round(n / d) for d > 0: the nearest integer, a tie going up.  The
\* quotients rounded by the scanner (100*k/6 and 40*s/100 for integers k, s)
\* are at least 0.1 away from a tie, so floating point cannot change them.
Round(n, d) == (2 * n + d) \div (2 * d)

Range(s) == {s[i] : i \in 1..Len(s)}

\* Array.prototype.includes
includes(s, x) == x \in Range(s)

\* Array.prototype.join(', ') of an array of numbers
RECURSIVE join(_)
join(s) ==
    IF Len(s) = 0 THEN ""
    ELSE IF Len(s) = 1 THEN ToString(s[1])
    ELSE ToString(s[1]) \o ", " \o join(Tail(s))

\* an optional number: undefined, NaN or a number
Undefined == [tag |-> "undefined", n |-> 0]
NaN == [tag |-> "NaN", n |-> 0]
Num(d) == [tag |-> "number", n |-> d]

\* `v && v > k` of calculateRisk: undefined, NaN and 0 are falsy, and no
\* comparison with NaN is true
TruthyAndGreater(v, k) == v.tag = "number" /\ v.n # 0 /\ v.n > k

(***************************************************************************)
(* VulnerabilityScanner: the fixed checklist and probe set                 *)
(***************************************************************************)

securityHeaders ==
    << "strict-transport-security", "content-security-policy",
       "x-frame-options", "x-content-type-options", "x-xss-protection",
       "referrer-policy" >>

commonPorts == << 80, 443, 8080, 8443, 3000, 3001 >>

PortIdx == 1..Len(commonPorts)

(***************************************************************************)
(* checkSSL: the findings of its five exits                                *)
(***************************************************************************)

\* SSLNotHttps reporting the missing certificate as valid
SSLNotHttpsValid ==
    [valid |-> TRUE, daysRemaining |-> Undefined, issuer |-> "undefined",
     expires |-> "undefined", error |-> "undefined"]

\* url.protocol !== 'https:'
SSLNotHttps ==
    [valid |-> FALSE, daysRemaining |-> Undefined, issuer |-> "undefined",
     expires |-> "undefined", error |-> "Website does not use HTTPS"]

\* Days left on the peer certificate at the time of the handshake:
\* Math.ceil((expiry - now) / 1 day).  The values around the two thresholds
\* of calculateRisk (0 and 30), an expired and a long-lived certificate.
CertDays == {-1, 0, 1, 30, 31, 90}

\* What the peer presented: a certificate with a valid_to date (days left
\* d), or none (getPeerCertificate() returns {}, so valid_to is undefined
\* and the day count is NaN); and whether the chain verified.
PeerCerts ==
    [hasCert : {TRUE}, days : CertDays, authorized : BOOLEAN]
        \cup [hasCert : {FALSE}, days : {0}, authorized : {FALSE}]

\* SSLFromCert as it would be with rejectUnauthorized left at true: an
\* unverified chain ends the connection with an error
SSLFromCertVerifiedOnly(cert) ==
    IF cert.authorized
    THEN [valid |-> TRUE,
          daysRemaining |-> IF cert.hasCert THEN Num(cert.days) ELSE NaN,
          issuer |-> IF cert.hasCert THEN "CN" ELSE "Unknown",
          expires |-> IF cert.hasCert THEN "valid_to" ELSE "undefined",
          error |-> "undefined"]
    ELSE [valid |-> FALSE, daysRemaining |-> Undefined, issuer |-> "undefined",
          expires |-> "undefined", error |-> "error.message"]

\* the body of the try block of the secureConnect handler
SSLFromCert(cert) ==
    [valid |-> cert.authorized,
     daysRemaining |-> IF cert.hasCert THEN Num(cert.days) ELSE NaN,
     issuer |-> IF cert.hasCert THEN "CN" ELSE "Unknown",
     expires |-> IF cert.hasCert THEN "valid_to" ELSE "undefined",
     error |-> IF cert.authorized THEN "undefined" ELSE "authorizationError"]

\* the catch block of the secureConnect handler
SSLParseFailure ==
    [valid |-> FALSE, daysRemaining |-> Undefined, issuer |-> "undefined",
     expires |-> "undefined", error |-> "Failed to parse certificate"]

\* SSLSocketError reporting the failed connection as valid
SSLSocketErrorValid ==
    [valid |-> TRUE, daysRemaining |-> Undefined, issuer |-> "undefined",
     expires |-> "undefined", error |-> "error.message"]

\* socket.on('error')
SSLSocketError ==
    [valid |-> FALSE, daysRemaining |-> Undefined, issuer |-> "undefined",
     expires |-> "undefined", error |-> "error.message"]

\* SSLTimedOut without its error
SSLTimedOutNoError ==
    [valid |-> FALSE, daysRemaining |-> Undefined, issuer |-> "undefined",
     expires |-> "undefined", error |-> "undefined"]

\* socket.setTimeout(10000, ...)
SSLTimedOut ==
    [valid |-> FALSE, daysRemaining |-> Undefined, issuer |-> "undefined",
     expires |-> "undefined", error |-> "Connection timeout"]

(***************************************************************************)
(* checkHeaders: the findings of the response callback and of the failure  *)
(* handlers                                                                *)
(***************************************************************************)

HeaderNames == Range(securityHeaders)

\* res.headers restricted to the checklist: a header is not sent, sent with
\* an empty value, or sent with a value
HeaderValues == {"absent", "empty", "value"}
ResponseHeaders == [HeaderNames -> HeaderValues]

\* `if (headers[header])`: undefined and '' are falsy
HeaderTruthy(v) == v = "value"

NoHeaders == [missing |-> << >>, present |-> << >>, score |-> 0]

\* HeadersFromResponse with `missing` not filtered
HeadersFromResponseAllMissing(headers) ==
    LET present == SelectSeq(securityHeaders, LAMBDA h : HeaderTruthy(headers[h]))
    IN  [missing |-> securityHeaders, present |-> present,
         score |-> Round(Len(present) * 100, Len(securityHeaders))]

\* the response callback: partition the checklist in checklist order
HeadersFromResponse(headers) ==
    LET present == SelectSeq(securityHeaders, LAMBDA h : HeaderTruthy(headers[h]))
        missing == SelectSeq(securityHeaders, LAMBDA h : ~HeaderTruthy(headers[h]))
    IN  [missing |-> missing, present |-> present,
         score |-> Round(Len(present) * 100, Len(securityHeaders))]

\* HeadersFailure with nothing reported missing
HeadersFailureNothingMissing ==
    [missing |-> << >>, present |-> << >>, score |-> 0]

\* req.on('error') and req.setTimeout(10000, ...) resolve the same value
HeadersFailure ==
    [missing |-> securityHeaders, present |-> << >>, score |-> 0]

(***************************************************************************)
(* checkPorts: what it builds from the allSettled results                  *)
(***************************************************************************)

\* the state of one checkPort promise once settled: fulfilled with true,
\* fulfilled with false, or rejected
PortResults == {"true", "false", "rejected"}

NoPorts == [open |-> << >>, closed |-> << >>, total |-> 0]

\* forEachResult that classifies the fulfilled results only
RECURSIVE forEachFulfilled(_, _, _)
forEachFulfilled(results, i, acc) ==
    IF i > Len(commonPorts) THEN acc
    ELSE LET port == commonPorts[i]
         IN  IF results[i] = "true"
             THEN forEachFulfilled(results, i + 1,
                                   [acc EXCEPT !.open = Append(@, port)])
             ELSE IF results[i] = "false"
                  THEN forEachFulfilled(results, i + 1,
                                        [acc EXCEPT !.closed = Append(@, port)])
                  ELSE forEachFulfilled(results, i + 1, acc)

\* results.forEach((result, index) => ...) from index i on
RECURSIVE forEachResult(_, _, _)
forEachResult(results, i, acc) ==
    IF i > Len(commonPorts) THEN acc
    ELSE LET port == commonPorts[i]
         IN  IF results[i] = "true"
             THEN forEachResult(results, i + 1,
                                [acc EXCEPT !.open = Append(@, port)])
             ELSE forEachResult(results, i + 1,
                                [acc EXCEPT !.closed = Append(@, port)])

\* PortsFromResults reporting a port open only when all six connected
PortsFromResultsAllOrNothing(results) ==
    IF \A i \in 1..Len(commonPorts) : results[i] = "true"
    THEN [open |-> commonPorts, closed |-> << >>, total |-> Len(commonPorts)]
    ELSE [open |-> << >>, closed |-> commonPorts, total |-> Len(commonPorts)]

\* the body of checkPorts after the await
PortsFromResults(results) ==
    forEachResult(results, 1,
                  [open |-> << >>, closed |-> << >>, total |-> Len(commonPorts)])

(***************************************************************************)
(* calculateRisk                                                           *)
(***************************************************************************)

RecSSLFix == "Fix SSL certificate issues - critical security vulnerability"
RecSSLRenew == "SSL certificate expires soon - consider renewal"
RecCSP == "Add Content-Security-Policy header to prevent XSS attacks"
RecXFO == "Enable X-Frame-Options to prevent clickjacking"
RecHSTS == "Add Strict-Transport-Security header for HTTPS enforcement"
RecPorts(unexpectedOpen) ==
    "Consider closing unnecessary ports: " \o join(unexpectedOpen)

expectedPorts == << 80, 443 >>

\* sslTerm with `>= 30` for `> 30`
sslTermFrom30(ssl) ==
    IF ssl.valid
    THEN IF ssl.daysRemaining.tag = "number" /\ ssl.daysRemaining.n >= 30
         THEN [score |-> 40, recs |-> << >>]
         ELSE IF TruthyAndGreater(ssl.daysRemaining, 0)
              THEN [score |-> 25, recs |-> << RecSSLRenew >>]
              ELSE [score |-> 0, recs |-> << >>]
    ELSE [score |-> 0, recs |-> << RecSSLFix >>]

\* sslTerm scoring the days remaining without looking at ssl.valid
sslTermIgnoringValid(ssl) ==
    IF TruthyAndGreater(ssl.daysRemaining, 30)
    THEN [score |-> 40, recs |-> IF ssl.valid THEN << >> ELSE << RecSSLFix >>]
    ELSE IF TruthyAndGreater(ssl.daysRemaining, 0)
         THEN [score |-> 25, recs |-> << RecSSLRenew >>]
         ELSE [score |-> 0, recs |-> IF ssl.valid THEN << >> ELSE << RecSSLFix >>]

\* the SSL block: points added and recommendations pushed
sslTerm(ssl) ==
    IF ssl.valid
    THEN IF TruthyAndGreater(ssl.daysRemaining, 30)
         THEN [score |-> 40, recs |-> << >>]
         ELSE IF TruthyAndGreater(ssl.daysRemaining, 0)
              THEN [score |-> 25, recs |-> << RecSSLRenew >>]
              ELSE [score |-> 0, recs |-> << >>]
    ELSE [score |-> 0, recs |-> << RecSSLFix >>]

\* headersTerm with the score left on its 0..100 scale
headersTermUnscaled(headers) ==
    [score |-> headers.score,
     recs |->
        (IF includes(headers.missing, "content-security-policy")
         THEN << RecCSP >> ELSE << >>)
        \o (IF includes(headers.missing, "x-frame-options")
            THEN << RecXFO >> ELSE << >>)
        \o (IF includes(headers.missing, "strict-transport-security")
            THEN << RecHSTS >> ELSE << >>)]

\* headersTerm with one test for the three messages: all of them are pushed
\* when the checklist is not complete
headersTermOneTest(headers) ==
    [score |-> Round(headers.score * 40, 100),
     recs |->
        IF Len(headers.missing) > 0
        THEN << RecCSP, RecXFO, RecHSTS >> ELSE << >>]

\* the headers block
headersTerm(headers) ==
    [score |-> Round(headers.score * 40, 100),
     recs |->
        (IF includes(headers.missing, "content-security-policy")
         THEN << RecCSP >> ELSE << >>)
        \o (IF includes(headers.missing, "x-frame-options")
            THEN << RecXFO >> ELSE << >>)
        \o (IF includes(headers.missing, "strict-transport-security")
            THEN << RecHSTS >> ELSE << >>)]

unexpectedOpenOf(ports) ==
    SelectSeq(ports.open, LAMBDA p : ~includes(expectedPorts, p))

\* portsTerm with the full 20 points only when no port at all is open
portsTermNoneOpen(ports) ==
    LET unexpectedOpen == unexpectedOpenOf(ports)
    IN  IF Len(ports.open) = 0
        THEN [score |-> 20, recs |-> << >>]
        ELSE IF Len(unexpectedOpen) = 0
             THEN [score |-> 10, recs |-> << >>]
             ELSE [score |-> 10, recs |-> << RecPorts(unexpectedOpen) >>]

\* the ports block
portsTerm(ports) ==
    LET unexpectedOpen == unexpectedOpenOf(ports)
    IN  IF Len(unexpectedOpen) = 0
        THEN [score |-> 20, recs |-> << >>]
        ELSE [score |-> 10, recs |-> << RecPorts(unexpectedOpen) >>]

\* riskOf with `>` for `>=`
riskOfStrict(score) ==
    IF score > 80 THEN "LOW RISK"
    ELSE IF score > 50 THEN "MEDIUM RISK"
    ELSE "HIGH RISK"

\* the closing if / else if / else
riskOf(score) ==
    IF score >= 80 THEN "LOW RISK"
    ELSE IF score >= 50 THEN "MEDIUM RISK"
    ELSE "HIGH RISK"

\* calculateRisk with the ports block evaluated first
calculateRiskPortsFirst(ssl, headers, ports) ==
    LET s == sslTerm(ssl)
        h == headersTerm(headers)
        p == portsTerm(ports)
        score == p.score + s.score + h.score
    IN  [overallRisk |-> riskOf(score),
         securityScore |-> score,
         recommendations |-> p.recs \o s.recs \o h.recs]

\* the three blocks in the order of the source, then the tier
calculateRisk(ssl, headers, ports) ==
    LET s == sslTerm(ssl)
        h == headersTerm(headers)
        p == portsTerm(ports)
        score == s.score + h.score + p.score
    IN  [overallRisk |-> riskOf(score),
         securityScore |-> score,
         recommendations |-> s.recs \o h.recs \o p.recs]

NoRisk == [overallRisk |-> "", securityScore |-> 0, recommendations |-> << >>]

(***************************************************************************)
(* State                                                                   *)
(***************************************************************************)

\* the number of POST /api/scans requests (scanLimiter admits 10 per
\* address and window; the requests here are admitted)
MaxReq == 2
Req == 1..MaxReq

VARIABLES
    net,             \* what the scanned targets can answer: "sample" or "any"
    \* the environment of the server process
    databaseUrl,     \* process.env.DATABASE_URL is set
    dbAvailable,     \* the database it names accepts connections
    dbInit,          \* how initializeDatabase ended, "none" before it ran
    \* MemStorage
    scans,           \* Map<number, Scan>
    currentId,
    updated,         \* per scan id: how many updateScan calls have reached it
    \* one POST /api/scans request each
    pc,              \* the handler's position
    protocol,        \* url.protocol of the body's url, or "invalid"
    scanId,          \* scan.id returned by createScan
    responses,       \* the status codes of the res.json calls the handler makes
    \* the scanURL call of the request
    scanP,           \* the promise scanURL returned
    report,          \* what calculateRisk returned
    sslP, ssl,       \* the promise of checkSSL and its value
    tlsSocket,       \* the socket tls.connect opened
    tlsPeer,         \* what the secureConnect handler read from it: << >>
                     \* or << the peer certificate with socket.authorized >>
    headersP, headers, \* the promise of checkHeaders and its value
    headersReq,      \* the request client.request made
    portsP, ports,   \* the promise of checkPorts and its value
    \* one checkPorts call seen socket by socket
    portPromise,     \* per port: the promise of checkPort
    portSocket,      \* per port: its net.Socket
    portEvent,       \* per port: the first event its socket emitted
    portsPc,         \* "awaiting" allSettled, or "returned"
    portsOut,        \* the value checkPorts returned
    \* one calculateRisk call, and a second one on the same findings
    riskPc, riskIn, riskOut,
    riskAgain,       \* what the second call returned
    \* one run of the response callback of checkHeaders
    cbPc,            \* "idle" before the response, "done" after the callback
    cbHeaders,       \* res.headers, restricted to the checklist
    cbFinding,       \* what the callback resolved
    \* MongoStorage and the handler runs that use it
    mongoConnected,  \* MongoStorage.connected
    mongoCollection, \* the documents of the scans collection
    mongoPc,         \* per run: its position
    mongoNewId,      \* per run: newId of createScan, then scan.id
    \* the handler runs on a socket or request whose promise was settled
    lateEvents       \* << probe, request or port index, event >>

envVars == << databaseUrl, dbAvailable, dbInit >>
callbackVars == << cbPc, cbHeaders, cbFinding >>
mongoVars == << mongoConnected, mongoCollection, mongoPc, mongoNewId >>
storeVars == << scans, currentId, updated >>
reqVars == << pc, protocol, scanId, responses >>
scanVars ==
    << scanP, report, sslP, ssl, tlsSocket, tlsPeer, headersP, headers,
       headersReq, portsP, ports >>
portVars == << portPromise, portSocket, portEvent, portsPc, portsOut >>
riskVars == << riskPc, riskIn, riskOut, riskAgain >>
vars == << net, lateEvents, envVars, callbackVars, mongoVars, storeVars, reqVars, scanVars, portVars, riskVars >>

(***************************************************************************)
(* What the targets can answer.  With net = "any" a handshake can present  *)
(* any certificate of PeerCerts, a response can carry any combination of   *)
(* checklist headers and the six ports can settle in any combination; with *)
(* net = "sample" the answers are those of a few sample targets, which     *)
(* keeps several concurrent requests within reach.                         *)
(***************************************************************************)

SampleCerts == {[hasCert |-> TRUE, days |-> 90, authorized |-> TRUE]}
SampleResponses == {[h \in HeaderNames |-> "value"]}
SamplePortResults ==
    {[i \in PortIdx |-> IF commonPorts[i] \in {80, 443} THEN "true" ELSE "false"]}

Certs == IF net = "any" THEN PeerCerts ELSE SampleCerts
CertThrows == IF net = "any" THEN BOOLEAN ELSE {FALSE}
Responses == IF net = "any" THEN ResponseHeaders ELSE SampleResponses
\* The six checkPort promises settle fulfilled, each with true or false, or
\* they are all rejected (the build left `require` undefined).  PortsSpec
\* lets each promise reject on its own; PortsFromResults puts a rejected
\* port where it puts a false one.
AnyPortResults ==
    [PortIdx -> {"true", "false"}] \cup {[i \in PortIdx |-> "rejected"]}
SettledPorts == IF net = "any" THEN AnyPortResults ELSE SamplePortResults

\* z.string().url() accepts every string `new URL` parses, whatever its
\* scheme; the body's url is represented by its protocol.  The sample
\* requests name an https: site, an ftp: url or no url at all.
AnyBodies == {"https:", "http:", "ftp:", "invalid"}
SampleBodies == {"https:", "ftp:", "invalid"}
Bodies == IF net = "any" THEN AnyBodies ELSE SampleBodies

(***************************************************************************)
(* The storage the handlers call, and MemStorage                           *)
(***************************************************************************)

\* `export const storage`: PostgresStorage if DATABASE_URL is provided,
\* otherwise MemStorage; evaluated once, when the module is loaded
storage == IF databaseUrl THEN "PostgresStorage" ELSE "MemStorage"

\* A call on the storage rejects when it is PostgresStorage and the query
\* cannot reach the database.  With the database available its table holds
\* what MemStorage's map would (`scans`, ids from a serial).
storageRejects == storage = "PostgresStorage" /\ ~dbAvailable

\* initializeDatabase, run at startup: it returns at once without
\* DATABASE_URL; otherwise it connects and creates the table, and its catch
\* logs 'Falling back to in-memory storage'.  It assigns nothing.
InitializeDatabase ==
    /\ dbInit = "none"
    /\ dbInit' = IF ~databaseUrl THEN "skipped"
                 ELSE IF dbAvailable THEN "initialized"
                 ELSE "failed"
    /\ UNCHANGED << net, lateEvents, databaseUrl, dbAvailable, callbackVars, mongoVars, storeVars,
                    reqVars, scanVars, portVars, riskVars >>

\* `{ valid: false }` and `{ valid: false, error: "Scan failed" }`
SSLPlaceholder ==
    [valid |-> FALSE, daysRemaining |-> Undefined, issuer |-> "undefined",
     expires |-> "undefined", error |-> "undefined"]
SSLScanFailed == [SSLPlaceholder EXCEPT !.error = "Scan failed"]

\* the record POST /api/scans creates (timestamp and duration are not
\* modelled: nothing reads them)
InitialScan(u) ==
    [url |-> u, overallRisk |-> "SCANNING", securityScore |-> 0,
     ssl |-> SSLPlaceholder, headers |-> NoHeaders, ports |-> NoPorts,
     recommendations |-> << >>, completed |-> FALSE]

\* the updates of the success branch
ResultUpdates(sslV, headersV, portsV, risk) ==
    [overallRisk |-> risk.overallRisk, securityScore |-> risk.securityScore,
     ssl |-> sslV, headers |-> headersV, ports |-> portsV,
     recommendations |-> risk.recommendations, completed |-> TRUE]

RecUnable == "Unable to complete scan - please verify URL is accessible"

\* ErrorUpdates without `completed: true`
ErrorUpdatesNotCompleted ==
    [overallRisk |-> "ERROR", securityScore |-> 0, ssl |-> SSLScanFailed,
     headers |-> NoHeaders, ports |-> NoPorts,
     recommendations |-> << RecUnable >>]

\* the updates of the catch (scanError) branch
ErrorUpdates ==
    [overallRisk |-> "ERROR", securityScore |-> 0, ssl |-> SSLScanFailed,
     headers |-> NoHeaders, ports |-> NoPorts,
     recommendations |-> << RecUnable >>, completed |-> TRUE]

\* Merge with the spread order swapped: { ...updates, ...existing }
MergeExistingWins(existing, updates) == existing

\* { ...existing, ...updates }
Merge(existing, updates) ==
    [f \in DOMAIN existing |->
        IF f \in DOMAIN updates THEN updates[f] ELSE existing[f]]

\* MemStorage.createScan: the map after the call (the id is currentId)
createScan(scanData) ==
    [i \in DOMAIN scans \cup {currentId} |->
        IF i = currentId THEN scanData ELSE scans[i]]

\* MemStorage.updateScan: the map after the call
updateScan(id, updates) ==
    IF id \notin DOMAIN scans THEN scans
    ELSE [scans EXCEPT ![id] = Merge(@, updates)]

countUpdate(id) ==
    IF id \notin DOMAIN scans THEN updated
    ELSE [updated EXCEPT ![id] = @ + 1]

\* the database stops accepting connections while the server runs
DatabaseOutage ==
    /\ databaseUrl
    /\ dbAvailable
    /\ dbAvailable' = FALSE
    /\ UNCHANGED << net, lateEvents, databaseUrl, dbInit, callbackVars, mongoVars, storeVars,
                    reqVars, scanVars, portVars, riskVars >>

(***************************************************************************)
(* POST /api/scans                                                         *)
(***************************************************************************)

\* PostScans with the placeholder record created before the body is
\* validated
PostScansCreateFirst(r) ==
    /\ pc[r] = "idle"
    /\ \E body \in Bodies :
        /\ protocol' = [protocol EXCEPT ![r] = body]
        /\ scans' = createScan(InitialScan(body))
        /\ currentId' = currentId + 1
        /\ updated' = [i \in DOMAIN updated \cup {currentId} |->
                          IF i = currentId THEN 0 ELSE updated[i]]
        /\ IF body = "invalid"
           THEN /\ responses' = [responses EXCEPT ![r] = Append(@, 400)]
                /\ pc' = [pc EXCEPT ![r] = "done"]
                /\ UNCHANGED scanId
           ELSE /\ scanId' = [scanId EXCEPT ![r] = currentId]
                /\ pc' = [pc EXCEPT ![r] = "created"]
                /\ UNCHANGED responses
    /\ UNCHANGED << net, lateEvents, envVars, callbackVars, mongoVars, scanVars, portVars, riskVars >>

\* The handler up to `await storage.createScan(...)`: a body that fails
\* startScanSchema.parse is answered 400 from the outer catch; a createScan
\* that rejects is answered 500 from the same catch; otherwise the
\* placeholder record is created.
PostScans(r) ==
    /\ pc[r] = "idle"
    /\ \E body \in Bodies :
        /\ protocol' = [protocol EXCEPT ![r] = body]
        /\ IF body = "invalid"
           THEN /\ responses' = [responses EXCEPT ![r] = Append(@, 400)]
                /\ pc' = [pc EXCEPT ![r] = "done"]
                /\ UNCHANGED << storeVars, scanId >>
           ELSE IF storageRejects
           THEN /\ responses' = [responses EXCEPT ![r] = Append(@, 500)]
                /\ pc' = [pc EXCEPT ![r] = "done"]
                /\ UNCHANGED << storeVars, scanId >>
           ELSE /\ scans' = createScan(InitialScan(body))
                /\ currentId' = currentId + 1
                /\ updated' = [i \in DOMAIN updated \cup {currentId} |->
                                  IF i = currentId THEN 0 ELSE updated[i]]
                /\ scanId' = [scanId EXCEPT ![r] = currentId]
                /\ pc' = [pc EXCEPT ![r] = "created"]
                /\ UNCHANGED responses
    /\ UNCHANGED << net, lateEvents, envVars, callbackVars, mongoVars, scanVars, portVars, riskVars >>

\* The handler from res.json({ scanId, message: "Scan started" }) to the
\* first await inside scanURL, plus the microtasks that follow it.
\*  - checkSSL returns a fulfilled promise for a url that is not https:,
\*    and otherwise opens the TLS socket;
\*  - checkHeaders calls http.request(url) for every protocol but https:,
\*    and Node's http.request throws ERR_INVALID_PROTOCOL inside the promise
\*    executor for a protocol that is not http:, so the promise is rejected;
\*  - checkPorts opens its six sockets;
\*  - Promise.all rejects as soon as one of the three is rejected, which is
\*    before any socket event: scanURL rejects and the handler's catch
\*    (scanError) branch records ERROR;
\*  - an updateScan that rejects inside that catch reaches the outer catch,
\*    which calls res.status(500).json(...) although 'Scan started' has
\*    been sent.
ScanStart(r) ==
    /\ pc[r] = "created"
    /\ responses' =
          [responses EXCEPT ![r] =
              IF protocol[r] \notin {"https:", "http:"} /\ storageRejects
              THEN @ \o << 200, 500 >>
              ELSE Append(@, 200)]
    /\ IF protocol[r] = "https:"
       THEN /\ sslP' = [sslP EXCEPT ![r] = "pending"]
            /\ tlsSocket' = [tlsSocket EXCEPT ![r] = "connecting"]
            /\ UNCHANGED ssl
       ELSE /\ sslP' = [sslP EXCEPT ![r] = "fulfilled"]
            /\ ssl' = [ssl EXCEPT ![r] = SSLNotHttps]
            /\ UNCHANGED tlsSocket
    /\ portsP' = [portsP EXCEPT ![r] = "pending"]
    /\ IF protocol[r] \in {"https:", "http:"}
       THEN /\ headersP' = [headersP EXCEPT ![r] = "pending"]
            /\ headersReq' = [headersReq EXCEPT ![r] = "sent"]
            /\ scanP' = [scanP EXCEPT ![r] = "pending"]
            /\ pc' = [pc EXCEPT ![r] = "scanning"]
            /\ UNCHANGED storeVars
       ELSE /\ headersP' = [headersP EXCEPT ![r] = "rejected"]
            /\ UNCHANGED headersReq
            /\ scanP' = [scanP EXCEPT ![r] = "rejected"]
            /\ IF storageRejects
               THEN UNCHANGED << scans, updated >>
               ELSE /\ scans' = updateScan(scanId[r], ErrorUpdates)
                    /\ updated' = countUpdate(scanId[r])
            /\ pc' = [pc EXCEPT ![r] = "done"]
            /\ UNCHANGED currentId
    /\ UNCHANGED << net, lateEvents, envVars, callbackVars, mongoVars, protocol, scanId, report, tlsPeer,
                    headers, ports, portVars, riskVars >>

(***************************************************************************)
(* checkSSL: the first event of the TLS socket settles the promise         *)
(***************************************************************************)

\* socket.on('secureConnect') with the peer's certificate; reading it may
\* throw, which the handler catches
SSLSecureConnect(r) ==
    /\ sslP[r] = "pending"
    /\ \E cert \in Certs, throws \in CertThrows :
        /\ ssl' = [ssl EXCEPT ![r] = IF throws THEN SSLParseFailure ELSE SSLFromCert(cert)]
        /\ tlsPeer' = [tlsPeer EXCEPT ![r] = IF throws THEN << >> ELSE << cert >>]
    /\ sslP' = [sslP EXCEPT ![r] = "fulfilled"]
    /\ tlsSocket' = [tlsSocket EXCEPT ![r] = "destroyed"]
    /\ UNCHANGED << net, lateEvents, envVars, callbackVars, mongoVars, storeVars, reqVars, scanP, report, headersP, headers,
                    headersReq, portsP, ports, portVars, riskVars >>

\* socket.on('error'): the handler does not destroy the socket
SSLError(r) ==
    /\ sslP[r] = "pending"
    /\ ssl' = [ssl EXCEPT ![r] = SSLSocketError]
    /\ sslP' = [sslP EXCEPT ![r] = "fulfilled"]
    /\ tlsSocket' = [tlsSocket EXCEPT ![r] = "errored"]
    /\ UNCHANGED << net, lateEvents, envVars, callbackVars, mongoVars, tlsPeer, storeVars, reqVars, scanP, report, headersP, headers,
                    headersReq, portsP, ports, portVars, riskVars >>

\* socket.setTimeout(10000, ...)
SSLTimeout(r) ==
    /\ sslP[r] = "pending"
    /\ ssl' = [ssl EXCEPT ![r] = SSLTimedOut]
    /\ sslP' = [sslP EXCEPT ![r] = "fulfilled"]
    /\ tlsSocket' = [tlsSocket EXCEPT ![r] = "destroyed"]
    /\ UNCHANGED << net, lateEvents, envVars, callbackVars, mongoVars, tlsPeer, storeVars, reqVars, scanP, report, headersP, headers,
                    headersReq, portsP, ports, portVars, riskVars >>

(***************************************************************************)
(* checkHeaders: the first event of the request settles the promise        *)
(***************************************************************************)

\* the response callback
HeadersResponse(r) ==
    /\ headersP[r] = "pending"
    /\ \E resHeaders \in Responses :
        headers' = [headers EXCEPT ![r] = HeadersFromResponse(resHeaders)]
    /\ headersP' = [headersP EXCEPT ![r] = "fulfilled"]
    /\ headersReq' = [headersReq EXCEPT ![r] = "responded"]
    /\ UNCHANGED << net, lateEvents, envVars, callbackVars, mongoVars, storeVars, reqVars, scanP, report, sslP, ssl, tlsSocket, tlsPeer,
                    portsP, ports, portVars, riskVars >>

\* HeadersError with the finding kept on the scanner instance, which every
\* invocation shares, instead of in the closure of the call
HeadersErrorSharedFinding(r) ==
    /\ headersP[r] = "pending"
    /\ headers' = [q \in Req |-> HeadersFailure]
    /\ headersP' = [headersP EXCEPT ![r] = "fulfilled"]
    /\ headersReq' = [headersReq EXCEPT ![r] = "errored"]
    /\ UNCHANGED << net, lateEvents, envVars, callbackVars, mongoVars, storeVars, reqVars, scanP, report, sslP, ssl, tlsSocket, tlsPeer,
                    portsP, ports, portVars, riskVars >>

\* req.on('error'): the handler does not destroy the request
HeadersError(r) ==
    /\ headersP[r] = "pending"
    /\ headers' = [headers EXCEPT ![r] = HeadersFailure]
    /\ headersP' = [headersP EXCEPT ![r] = "fulfilled"]
    /\ headersReq' = [headersReq EXCEPT ![r] = "errored"]
    /\ UNCHANGED << net, lateEvents, envVars, callbackVars, mongoVars, storeVars, reqVars, scanP, report, sslP, ssl, tlsSocket, tlsPeer,
                    portsP, ports, portVars, riskVars >>

\* req.setTimeout(10000, ...)
HeadersTimeout(r) ==
    /\ headersP[r] = "pending"
    /\ headers' = [headers EXCEPT ![r] = HeadersFailure]
    /\ headersP' = [headersP EXCEPT ![r] = "fulfilled"]
    /\ headersReq' = [headersReq EXCEPT ![r] = "destroyed"]
    /\ UNCHANGED << net, lateEvents, envVars, callbackVars, mongoVars, storeVars, reqVars, scanP, report, sslP, ssl, tlsSocket, tlsPeer,
                    portsP, ports, portVars, riskVars >>

(***************************************************************************)
(* checkPorts as one promise: it resumes once, when the last of the six    *)
(* checkPort promises has settled (PortsSpec follows them one by one)      *)
(***************************************************************************)

PortsSettled(r) ==
    /\ portsP[r] = "pending"
    /\ \E results \in SettledPorts :
        ports' = [ports EXCEPT ![r] = PortsFromResults(results)]
    /\ portsP' = [portsP EXCEPT ![r] = "fulfilled"]
    /\ UNCHANGED << net, lateEvents, envVars, callbackVars, mongoVars, storeVars, reqVars, scanP, report, sslP, ssl, tlsSocket, tlsPeer,
                    headersP, headers, headersReq, portVars, riskVars >>

(***************************************************************************)
(* scanURL after Promise.all, and the handler's success branch             *)
(***************************************************************************)

\* Promise.all fulfils when the three promises are fulfilled; scanURL
\* returns the report and the handler merges it into the record.  When
\* updateScan rejects, the catch (scanError) branch calls updateScan again;
\* that rejection reaches the outer catch, which calls
\* res.status(500).json(...) although 'Scan started' has been sent.
ScanResolved(r) ==
    /\ scanP[r] = "pending"
    /\ sslP[r] = "fulfilled" /\ headersP[r] = "fulfilled" /\ portsP[r] = "fulfilled"
    /\ LET risk == calculateRisk(ssl[r], headers[r], ports[r])
       IN  /\ report' = [report EXCEPT ![r] = risk]
           /\ IF storageRejects
              THEN /\ responses' = [responses EXCEPT ![r] = Append(@, 500)]
                   /\ UNCHANGED << scans, updated >>
              ELSE /\ scans' = updateScan(scanId[r],
                                          ResultUpdates(ssl[r], headers[r], ports[r], risk))
                   /\ updated' = countUpdate(scanId[r])
                   /\ UNCHANGED responses
    /\ scanP' = [scanP EXCEPT ![r] = "fulfilled"]
    /\ pc' = [pc EXCEPT ![r] = "done"]
    /\ UNCHANGED << net, lateEvents, envVars, callbackVars, mongoVars, currentId, protocol,
                    scanId, sslP, ssl, tlsSocket, tlsPeer, headersP, headers,
                    headersReq, portsP, ports, portVars, riskVars >>

(***************************************************************************)
(* One checkPorts call, socket by socket                                   *)
(***************************************************************************)

\* socket.on('connect')
PortConnect(i) ==
    /\ portPromise[i] = "pending"
    /\ portEvent' = [portEvent EXCEPT ![i] = "connect"]
    /\ portSocket' = [portSocket EXCEPT ![i] = "destroyed"]
    /\ portPromise' = [portPromise EXCEPT ![i] = "true"]
    /\ UNCHANGED << net, lateEvents, envVars, callbackVars, mongoVars, storeVars, reqVars, scanVars, portsPc, portsOut, riskVars >>

\* socket.on('timeout'), 3000 ms after socket.setTimeout
PortTimeout(i) ==
    /\ portPromise[i] = "pending"
    /\ portEvent' = [portEvent EXCEPT ![i] = "timeout"]
    /\ portSocket' = [portSocket EXCEPT ![i] = "destroyed"]
    /\ portPromise' = [portPromise EXCEPT ![i] = "false"]
    /\ UNCHANGED << net, lateEvents, envVars, callbackVars, mongoVars, storeVars, reqVars, scanVars, portsPc, portsOut, riskVars >>

\* socket.on('error'): the handler does not destroy the socket
PortError(i) ==
    /\ portPromise[i] = "pending"
    /\ portEvent' = [portEvent EXCEPT ![i] = "error"]
    /\ portSocket' = [portSocket EXCEPT ![i] = "errored"]
    /\ portPromise' = [portPromise EXCEPT ![i] = "false"]
    /\ UNCHANGED << net, lateEvents, envVars, callbackVars, mongoVars, storeVars, reqVars, scanVars, portsPc, portsOut, riskVars >>

\* Promise.allSettled has every result: checkPorts builds its value
PortsReturn ==
    /\ portsPc = "awaiting"
    /\ \A i \in PortIdx : portPromise[i] \in PortResults
    /\ portsOut' = PortsFromResults(portPromise)
    /\ portsPc' = "returned"
    /\ UNCHANGED << net, lateEvents, envVars, callbackVars, mongoVars, storeVars, reqVars, scanVars, portPromise, portSocket, portEvent, riskVars >>

(***************************************************************************)
(* Events after the first one.  The handlers stay registered for the life  *)
(* of the socket or request and run again on each event; their resolve     *)
(* calls go to a promise that is settled.  A timer stays armed until the   *)
(* socket is destroyed, so a timeout follows an event whose handler did    *)
(* not destroy (error, response); an error can follow any other event.     *)
(***************************************************************************)

\* resolve taking every call
resolveOverwriting(state, current, value) == value

\* the resolve function of `new Promise((resolve) => ...)`: the value of
\* the promise after resolve(value), from its state and current value
resolve(state, current, value) ==
    IF state = "pending" THEN value ELSE current

\* socket.setTimeout(10000, ...) of checkSSL after socket.on('error')
SSLLateTimeout(r) ==
    /\ sslP[r] = "fulfilled"
    /\ tlsSocket[r] = "errored"
    /\ tlsSocket' = [tlsSocket EXCEPT ![r] = "destroyed"]
    /\ ssl' = [ssl EXCEPT ![r] = resolve(sslP[r], @, SSLTimedOut)]
    /\ lateEvents' = lateEvents \cup {<< "checkSSL", r, "timeout" >>}
    /\ UNCHANGED << net, envVars, callbackVars, mongoVars, storeVars, reqVars,
                    scanP, report, sslP, tlsPeer, headersP, headers, headersReq,
                    portsP, ports, portVars, riskVars >>

\* socket.on('error') of checkSSL after secureConnect or the timeout, whose
\* handlers destroyed the socket
SSLLateError(r) ==
    /\ sslP[r] = "fulfilled"
    /\ tlsSocket[r] = "destroyed"
    /\ << "checkSSL", r, "timeout" >> \notin lateEvents
    /\ << "checkSSL", r, "error" >> \notin lateEvents
    /\ ssl' = [ssl EXCEPT ![r] = resolve(sslP[r], @, SSLSocketError)]
    /\ lateEvents' = lateEvents \cup {<< "checkSSL", r, "error" >>}
    /\ UNCHANGED << net, envVars, callbackVars, mongoVars, storeVars, reqVars,
                    scanP, report, sslP, tlsSocket, tlsPeer, headersP, headers,
                    headersReq, portsP, ports, portVars, riskVars >>

\* req.setTimeout(10000, ...) after the response callback or req.on('error')
HeadersLateTimeout(r) ==
    /\ headersP[r] = "fulfilled"
    /\ headersReq[r] \in {"responded", "errored"}
    /\ headersReq' = [headersReq EXCEPT ![r] = "destroyed"]
    /\ headers' = [headers EXCEPT ![r] = resolve(headersP[r], @, HeadersFailure)]
    /\ lateEvents' = lateEvents \cup {<< "checkHeaders", r, "timeout" >>}
    /\ UNCHANGED << net, envVars, callbackVars, mongoVars, storeVars, reqVars,
                    scanP, report, sslP, ssl, tlsSocket, tlsPeer, headersP,
                    portsP, ports, portVars, riskVars >>

\* req.on('error') after the response callback, or after the timeout's
\* req.destroy()
HeadersLateError(r) ==
    /\ headersP[r] = "fulfilled"
    /\ headersReq[r] \in {"responded", "destroyed"}
    /\ << "checkHeaders", r, "error" >> \notin lateEvents
    /\ headersReq[r] = "destroyed" /\ << "checkHeaders", r, "timeout" >> \in lateEvents
          => headers[r] # HeadersFailure
    /\ headers' = [headers EXCEPT ![r] = resolve(headersP[r], @, HeadersFailure)]
    /\ lateEvents' = lateEvents \cup {<< "checkHeaders", r, "error" >>}
    /\ UNCHANGED << net, envVars, callbackVars, mongoVars, storeVars, reqVars,
                    scanP, report, sslP, ssl, tlsSocket, tlsPeer, headersP,
                    headersReq, portsP, ports, portVars, riskVars >>

\* socket.on('timeout') of checkPort after socket.on('error')
PortLateTimeout(i) ==
    /\ portPromise[i] \in {"true", "false"}
    /\ portSocket[i] = "errored"
    /\ portSocket' = [portSocket EXCEPT ![i] = "destroyed"]
    /\ portPromise' = [portPromise EXCEPT ![i] = resolve(@, @, "false")]
    /\ lateEvents' = lateEvents \cup {<< "checkPort", i, "timeout" >>}
    /\ UNCHANGED << net, envVars, callbackVars, mongoVars, storeVars, reqVars,
                    scanVars, portEvent, portsPc, portsOut, riskVars >>

\* socket.on('error') of checkPort after connect or timeout, whose handlers
\* destroyed the socket
PortLateError(i) ==
    /\ portPromise[i] \in {"true", "false"}
    /\ portEvent[i] \in {"connect", "timeout"}
    /\ << "checkPort", i, "error" >> \notin lateEvents
    /\ portPromise' = [portPromise EXCEPT ![i] = resolve(@, @, "false")]
    /\ lateEvents' = lateEvents \cup {<< "checkPort", i, "error" >>}
    /\ UNCHANGED << net, envVars, callbackVars, mongoVars, storeVars, reqVars,
                    scanVars, portSocket, portEvent, portsPc, portsOut, riskVars >>

(***************************************************************************)
(* One calculateRisk call on findings of the data model                    *)
(***************************************************************************)

\* headers.score of the data model: an integer from 0 to MaxScore
MaxScore == 100

SSLInputs ==
    {[SSLPlaceholder EXCEPT !.valid = v, !.daysRemaining = d] :
        v \in BOOLEAN, d \in {Undefined, NaN} \cup {Num(n) : n \in CertDays}}

HeadersInputs ==
    {HeadersFromResponse(h) : h \in ResponseHeaders}
        \cup {[missing |-> m, present |-> << >>, score |-> s] :
                 m \in {<< >>, securityHeaders}, s \in 0..MaxScore}

PortsInputs ==
    {PortsFromResults(res) : res \in [PortIdx -> {"true", "false"}]}

Calculate ==
    /\ riskPc = "idle"
    /\ \E sslIn \in SSLInputs, headersIn \in HeadersInputs, portsIn \in PortsInputs :
        /\ riskIn' = [ssl |-> sslIn, headers |-> headersIn, ports |-> portsIn]
        /\ riskOut' = calculateRisk(sslIn, headersIn, portsIn)
    /\ riskPc' = "done"
    /\ UNCHANGED << net, lateEvents, envVars, callbackVars, mongoVars, storeVars, reqVars, scanVars, portVars, riskAgain >>

\* CalculateAgain with `score` and `recommendations` kept from the first
\* call instead of starting from 0 and []
CalculateAgainAccumulating ==
    /\ riskPc = "done"
    /\ LET again == calculateRisk(riskIn.ssl, riskIn.headers, riskIn.ports)
           score == riskOut.securityScore + again.securityScore
       IN  riskAgain' = [overallRisk |-> riskOf(score),
                         securityScore |-> score,
                         recommendations |->
                             riskOut.recommendations \o again.recommendations]
    /\ riskPc' = "again"
    /\ UNCHANGED << net, lateEvents, envVars, callbackVars, mongoVars, storeVars, reqVars, scanVars, portVars, riskIn, riskOut >>

\* calculateRisk called a second time with the same findings: `score` and
\* `recommendations` are locals, initialised by every call
CalculateAgain ==
    /\ riskPc = "done"
    /\ riskAgain' = calculateRisk(riskIn.ssl, riskIn.headers, riskIn.ports)
    /\ riskPc' = "again"
    /\ UNCHANGED << net, lateEvents, envVars, callbackVars, mongoVars, storeVars, reqVars, scanVars, portVars, riskIn, riskOut >>

(***************************************************************************)
(* One run of the response callback of checkHeaders on a response          *)
(***************************************************************************)

HeadersCallback ==
    /\ cbPc = "idle"
    /\ \E resHeaders \in ResponseHeaders :
        /\ cbHeaders' = resHeaders
        /\ cbFinding' = HeadersFromResponse(resHeaders)
    /\ cbPc' = "done"
    /\ UNCHANGED << net, lateEvents, envVars, mongoVars, storeVars, reqVars, scanVars,
                    portVars, riskVars >>

(***************************************************************************)
(* MongoStorage: handler runs that create their record and later update it *)
(***************************************************************************)

\* the documents of the collection in insertion order: the id createScan
\* gave, the run that inserted it and the runs whose updateScan changed it
MongoDoc(id, by) == [id |-> id, by |-> by, updatedBy |-> << >>]

\* the largest id of the collection: findOne({}, { sort: { id: -1 } })
lastScanId(docs) ==
    IF Len(docs) = 0 THEN 0
    ELSE CHOOSE m \in {docs[i].id : i \in 1..Len(docs)} :
            \A i \in 1..Len(docs) : docs[i].id <= m

\* the position of the document findOneAndUpdate({ id }) matches: the first
\* with that id, 0 if there is none
firstWithId(docs, id) ==
    IF \E i \in 1..Len(docs) : docs[i].id = id
    THEN CHOOSE i \in 1..Len(docs) :
            /\ docs[i].id = id
            /\ \A j \in 1..(i - 1) : docs[j].id # id
    ELSE 0

\* ensureConnection, not yet connected: client.connect() succeeds
MongoConnect(c) ==
    /\ mongoPc[c] = "createScan"
    /\ mongoConnected' = TRUE
    /\ mongoPc' = [mongoPc EXCEPT ![c] = "connected"]
    /\ UNCHANGED << net, lateEvents, envVars, callbackVars, mongoCollection, mongoNewId,
                    storeVars, reqVars, scanVars, portVars, riskVars >>

\* ensureConnection, not yet connected: client.connect() fails and
\* 'Database connection failed' is thrown out of createScan
MongoConnectFails(c) ==
    /\ mongoPc[c] = "createScan"
    /\ ~mongoConnected
    /\ mongoPc' = [mongoPc EXCEPT ![c] = "failed"]
    /\ UNCHANGED << net, lateEvents, envVars, callbackVars, mongoConnected, mongoCollection,
                    mongoNewId, storeVars, reqVars, scanVars, portVars, riskVars >>

\* createScan: `await findOne(...)` and the computation of newId
MongoFindLast(c) ==
    /\ mongoPc[c] = "connected"
    /\ mongoNewId' = [mongoNewId EXCEPT ![c] = lastScanId(mongoCollection) + 1]
    /\ mongoPc' = [mongoPc EXCEPT ![c] = "found"]
    /\ UNCHANGED << net, lateEvents, envVars, callbackVars, mongoConnected, mongoCollection,
                    storeVars, reqVars, scanVars, portVars, riskVars >>

\* createScan: `await insertOne(scan)`; the handler goes on to scan
MongoInsert(c) ==
    /\ mongoPc[c] = "found"
    /\ mongoCollection' = Append(mongoCollection, MongoDoc(mongoNewId[c], c))
    /\ mongoPc' = [mongoPc EXCEPT ![c] = "scanning"]
    /\ UNCHANGED << net, lateEvents, envVars, callbackVars, mongoConnected, mongoNewId,
                    storeVars, reqVars, scanVars, portVars, riskVars >>

\* updateScan(scan.id, ...) of the handler: findOneAndUpdate({ id }, $set)
MongoUpdate(c) ==
    /\ mongoPc[c] = "scanning"
    /\ LET i == firstWithId(mongoCollection, mongoNewId[c])
       IN  mongoCollection' =
              IF i = 0 THEN mongoCollection
              ELSE [mongoCollection EXCEPT ![i].updatedBy = Append(@, c)]
    /\ mongoPc' = [mongoPc EXCEPT ![c] = "done"]
    /\ UNCHANGED << net, lateEvents, envVars, callbackVars, mongoConnected, mongoNewId,
                    storeVars, reqVars, scanVars, portVars, riskVars >>

(***************************************************************************)
(* Specifications                                                          *)
(***************************************************************************)

NoMongo ==
    /\ mongoConnected = FALSE
    /\ mongoCollection = << >>
    /\ mongoPc = [c \in Req |-> "off"]
    /\ mongoNewId = [c \in Req |-> 0]

NoCallback ==
    /\ cbPc = "off"
    /\ cbHeaders = [h \in HeaderNames |-> "absent"]
    /\ cbFinding = NoHeaders

\* the server runs without DATABASE_URL: initializeDatabase returned at
\* once and the storage is MemStorage
NoDatabase ==
    /\ databaseUrl = FALSE
    /\ dbAvailable = FALSE
    /\ dbInit = "skipped"

InitStore ==
    /\ scans = << >>
    /\ currentId = 1
    /\ updated = << >>

\* the requests of `arriving` will be made, the others never are
InitRequests(arriving) ==
    /\ pc = [r \in Req |-> IF r \in arriving THEN "idle" ELSE "off"]
    /\ protocol = [r \in Req |-> "none"]
    /\ scanId = [r \in Req |-> 0]
    /\ responses = [r \in Req |-> << >>]
    /\ scanP = [r \in Req |-> "none"]
    /\ report = [r \in Req |-> NoRisk]
    /\ sslP = [r \in Req |-> "none"]
    /\ ssl = [r \in Req |-> SSLPlaceholder]
    /\ tlsSocket = [r \in Req |-> "none"]
    /\ tlsPeer = [r \in Req |-> << >>]
    /\ headersP = [r \in Req |-> "none"]
    /\ headers = [r \in Req |-> NoHeaders]
    /\ headersReq = [r \in Req |-> "none"]
    /\ portsP = [r \in Req |-> "none"]
    /\ ports = [r \in Req |-> NoPorts]

NoPortsCall ==
    /\ portPromise = [i \in PortIdx |-> "none"]
    /\ portSocket = [i \in PortIdx |-> "none"]
    /\ portEvent = [i \in PortIdx |-> "none"]
    /\ portsPc = "idle"
    /\ portsOut = NoPorts

NoRiskCall ==
    /\ riskPc = "off"
    /\ riskIn = [ssl |-> SSLPlaceholder, headers |-> NoHeaders, ports |-> NoPorts]
    /\ riskOut = NoRisk
    /\ riskAgain = NoRisk

\* MaxReq concurrent requests against the sample targets
Init ==
    /\ net = "sample"
    /\ lateEvents = {}
    /\ NoMongo
    /\ NoCallback
    /\ NoDatabase
    /\ InitStore
    /\ InitRequests(Req)
    /\ NoPortsCall
    /\ NoRiskCall

Next ==
    \E r \in Req :
        \/ PostScans(r)
        \/ ScanStart(r)
        \/ SSLSecureConnect(r)
        \/ SSLError(r)
        \/ SSLTimeout(r)
        \/ HeadersResponse(r)
        \/ HeadersError(r)
        \/ HeadersTimeout(r)
        \/ PortsSettled(r)
        \/ ScanResolved(r)

Spec == Init /\ [][Next]_vars

\* one request against targets that can answer anything
InitScan ==
    /\ net = "any"
    /\ lateEvents = {}
    /\ NoMongo
    /\ NoCallback
    /\ NoDatabase
    /\ InitStore
    /\ InitRequests({1})
    /\ NoPortsCall
    /\ NoRiskCall

ScanSpec == InitScan /\ [][Next]_vars

\* one checkPorts call: checkPort has been called for the six ports.  Its
\* promise is pending with its socket connecting, or already rejected
\* because the executor threw (`require` is not defined in an ES module
\* build) before a socket existed.
InitPorts ==
    /\ net = "any"
    /\ lateEvents = {}
    /\ NoMongo
    /\ NoCallback
    /\ NoDatabase
    /\ InitStore
    /\ InitRequests({})
    /\ portPromise \in [PortIdx -> {"pending", "rejected"}]
    /\ portSocket = [i \in PortIdx |->
                        IF portPromise[i] = "pending" THEN "connecting" ELSE "none"]
    /\ portEvent = [i \in PortIdx |-> "none"]
    /\ portsPc = "awaiting"
    /\ portsOut = NoPorts
    /\ NoRiskCall

NextPorts ==
    \/ \E i \in PortIdx : PortConnect(i)
    \/ \E i \in PortIdx : PortTimeout(i)
    \/ \E i \in PortIdx : PortError(i)
    \/ PortsReturn

PortsSpec == InitPorts /\ [][NextPorts]_vars

\* one calculateRisk call
InitRisk ==
    /\ net = "any"
    /\ lateEvents = {}
    /\ NoMongo
    /\ NoCallback
    /\ NoDatabase
    /\ InitStore
    /\ InitRequests({})
    /\ NoPortsCall
    /\ riskPc = "idle"
    /\ riskIn = [ssl |-> SSLPlaceholder, headers |-> NoHeaders, ports |-> NoPorts]
    /\ riskOut = NoRisk
    /\ riskAgain = NoRisk

NextRisk ==
    \/ Calculate
    \/ CalculateAgain

RiskSpec == InitRisk /\ [][NextRisk]_vars

\* one response to the HEAD request, with any combination of checklist
\* headers, absent, empty or with a value
InitCallback ==
    /\ net = "any"
    /\ lateEvents = {}
    /\ NoMongo
    /\ NoDatabase
    /\ cbPc = "idle"
    /\ cbHeaders = [h \in HeaderNames |-> "absent"]
    /\ cbFinding = NoHeaders
    /\ InitStore
    /\ InitRequests({})
    /\ NoPortsCall
    /\ NoRiskCall

NextCallback == HeadersCallback

CallbackSpec == InitCallback /\ [][NextCallback]_vars

\* MaxReq handler runs on a MongoStorage whose collection is empty or
\* holds documents of earlier runs
InitMongo ==
    /\ net = "sample"
    /\ lateEvents = {}
    /\ NoDatabase
    /\ NoCallback
    /\ mongoConnected = FALSE
    /\ mongoCollection \in {<< >>, << MongoDoc(1, 0) >>,
                             << MongoDoc(1, 0), MongoDoc(2, 0) >>,
                             << MongoDoc(2, 0) >>}
    /\ mongoPc = [c \in Req |-> "createScan"]
    /\ mongoNewId = [c \in Req |-> 0]
    /\ InitStore
    /\ InitRequests({})
    /\ NoPortsCall
    /\ NoRiskCall

NextMongo ==
    \E c \in Req :
        \/ MongoConnect(c)
        \/ MongoConnectFails(c)
        \/ MongoFindLast(c)
        \/ MongoInsert(c)
        \/ MongoUpdate(c)

MongoSpec == InitMongo /\ [][NextMongo]_vars

\* The server from its start, with or without DATABASE_URL and with the
\* database up or down, and one request, made before or after
\* initializeDatabase has ended
InitStartup ==
    /\ net = "sample"
    /\ lateEvents = {}
    /\ NoMongo
    /\ NoCallback
    /\ databaseUrl \in BOOLEAN
    /\ dbAvailable \in BOOLEAN
    /\ dbInit = "none"
    /\ InitStore
    /\ InitRequests({1})
    /\ NoPortsCall
    /\ NoRiskCall

NextStartup ==
    \/ InitializeDatabase
    \/ Next

StartupSpec == InitStartup /\ [][NextStartup]_vars

\* The server on PostgresStorage with the database up at its start and
\* going down at any moment, and one request
InitOutage ==
    /\ net = "sample"
    /\ lateEvents = {}
    /\ NoMongo
    /\ NoCallback
    /\ databaseUrl = TRUE
    /\ dbAvailable = TRUE
    /\ dbInit = "none"
    /\ InitStore
    /\ InitRequests({1})
    /\ NoPortsCall
    /\ NoRiskCall

NextOutage ==
    \/ InitializeDatabase
    \/ DatabaseOutage
    \/ Next

OutageSpec == InitOutage /\ [][NextOutage]_vars

\* One request against the sample targets and one checkPorts call whose
\* sockets for 80 and 443 are connecting (the other four have timed out),
\* with the events that follow the first one
InitLate ==
    /\ net = "sample"
    /\ lateEvents = {}
    /\ NoMongo
    /\ NoCallback
    /\ NoDatabase
    /\ InitStore
    /\ InitRequests({1})
    /\ portPromise = [i \in PortIdx |->
                         IF commonPorts[i] \in {80, 443} THEN "pending" ELSE "false"]
    /\ portSocket = [i \in PortIdx |->
                        IF portPromise[i] = "pending" THEN "connecting" ELSE "destroyed"]
    /\ portEvent = [i \in PortIdx |->
                       IF portPromise[i] = "pending" THEN "none" ELSE "timeout"]
    /\ portsPc = "awaiting"
    /\ portsOut = NoPorts
    /\ NoRiskCall

NextLate ==
    \/ Next
    \/ NextPorts
    \/ \E r \in Req : SSLLateTimeout(r)
    \/ \E r \in Req : SSLLateError(r)
    \/ \E r \in Req : HeadersLateTimeout(r)
    \/ \E r \in Req : HeadersLateError(r)
    \/ \E i \in PortIdx : PortLateTimeout(i)
    \/ \E i \in PortIdx : PortLateError(i)

LateSpec == InitLate /\ [][NextLate]_vars

\* Spec with the event loop and the timers running: a continuation that
\* is ready runs, and a probe that nothing else settles is settled by its
\* own timer (10 s for the TLS socket and for the request, 3 s per port).
TimersAndContinuations(r) ==
    \/ ScanStart(r)
    \/ SSLTimeout(r)
    \/ HeadersTimeout(r)
    \/ PortsSettled(r)
    \/ ScanResolved(r)

LiveSpec ==
    /\ Init
    /\ [][Next]_vars
    /\ \A r \in Req : WF_vars(TimersAndContinuations(r))

(***************************************************************************)
(* Properties                                                              *)
(***************************************************************************)

\* the integer nearest to 40 * s / 100
IsHeaderContribution(c, s) == 100 * c - 50 <= 40 * s /\ 40 * s < 100 * c + 50

\* C1: every report scanURL returns has a securityScore that is an integer
\* of 0..100 and the sum of an SSL contribution of {0, 25, 40}, the header
\* contribution round(40 * headers.score / 100) of 0..40 and a port
\* contribution of {10, 20}.
C1ScoreIsSumOfCappedTerms ==
    \A r \in Req :
        scanP[r] = "fulfilled" =>
            /\ report[r].securityScore \in 0..100
            /\ \E sslC \in {0, 25, 40}, headerC \in 0..40, portC \in {10, 20} :
                /\ IsHeaderContribution(headerC, headers[r].score)
                /\ report[r].securityScore = sslC + headerC + portC

\* a report over one checklist header (score 17, contribution 7), a valid
\* long-lived certificate and an unexpected open port
C1Witness ==
    \E r \in Req :
        /\ scanP[r] = "fulfilled"
        /\ headers[r].score = 17
        /\ ssl[r].valid
        /\ report[r].securityScore = 40 + 7 + 10

\* C2: overallRisk is a step function of securityScore: 80 and more is LOW
\* RISK, 50 to 79 is MEDIUM RISK, less than 50 is HIGH RISK.
C2RiskIsStepOfScore ==
    riskPc = "done" =>
        /\ riskOut.securityScore >= 80 => riskOut.overallRisk = "LOW RISK"
        /\ (riskOut.securityScore >= 50 /\ riskOut.securityScore < 80)
              => riskOut.overallRisk = "MEDIUM RISK"
        /\ riskOut.securityScore < 50 => riskOut.overallRisk = "HIGH RISK"

\* the boundary score 79 is rated MEDIUM RISK
C2Witness ==
    /\ riskPc = "done"
    /\ riskOut.securityScore = 79
    /\ riskOut.overallRisk = "MEDIUM RISK"

\* C3: however checkHeaders settles, present and missing partition the
\* checklist.
C3HeadersPartitionChecklist ==
    \A r \in Req :
        headersP[r] = "fulfilled" =>
            /\ Range(headers[r].present) \cup Range(headers[r].missing) = HeaderNames
            /\ Range(headers[r].present) \cap Range(headers[r].missing) = {}

\* a response with some checklist headers and without others
C3Witness ==
    \E r \in Req :
        /\ headersReq[r] = "responded"
        /\ Len(headers[r].present) = 2
        /\ Len(headers[r].missing) = 4

\* C4: whatever the six checkPort promises settle to, open and closed
\* partition the probe set and total is 6.
C4PortsPartitionProbeSet ==
    portsPc = "returned" =>
        /\ Range(portsOut.open) \cup Range(portsOut.closed) = {80, 443, 8080, 8443, 3000, 3001}
        /\ Range(portsOut.open) \cap Range(portsOut.closed) = {}
        /\ portsOut.total = 6

\* checkPorts returned after a connect, a timeout, an error and a rejection
C4Witness ==
    /\ portsPc = "returned"
    /\ \E i, j, k, l \in PortIdx :
        /\ portPromise[i] = "true"
        /\ portPromise[j] = "false" /\ portSocket[j] = "destroyed"
        /\ portPromise[k] = "false" /\ portSocket[k] = "errored"
        /\ portPromise[l] = "rejected"

\* C5: for every valid absolute URL, whatever its scheme, no probe rejects
\* and so scanURL does not reject.
C5NoProbeRejects ==
    \A r \in Req :
        /\ sslP[r] # "rejected"
        /\ headersP[r] # "rejected"
        /\ portsP[r] # "rejected"
        /\ scanP[r] # "rejected"

\* C6: scanURL settles only once its three probes have settled.
C6SettlesAfterAllProbes ==
    \A r \in Req :
        scanP[r] \in {"fulfilled", "rejected"} =>
            /\ sslP[r] \in {"fulfilled", "rejected"}
            /\ headersP[r] \in {"fulfilled", "rejected"}
            /\ portsP[r] \in {"fulfilled", "rejected"}

\* C7: for a url that is not https:, checkSSL returns valid = false with an
\* error without opening a TLS socket, and the SSL term adds nothing to
\* securityScore.
C7NotHttpsIsInvalidWithoutSocket ==
    \A r \in Req :
        (sslP[r] # "none" /\ protocol[r] # "https:") =>
            /\ sslP[r] = "fulfilled"
            /\ ssl[r].valid = FALSE
            /\ ssl[r].error # "undefined"
            /\ tlsSocket[r] = "none"
            /\ scanP[r] = "fulfilled" =>
                  report[r].securityScore
                      = headersTerm(headers[r]).score + portsTerm(ports[r]).score

\* an http: scan whose other two terms are at their maximum
C7Witness ==
    \E r \in Req :
        /\ protocol[r] = "http:"
        /\ scanP[r] = "fulfilled"
        /\ report[r].securityScore = 60

\* C8: when the header request fails (error or timeout) the finding is
\* present = [], missing = the whole checklist, score = 0; the header term
\* adds nothing and the three header recommendations are made.
C8HeaderFailureIsWorstCase ==
    \A r \in Req :
        headersReq[r] \in {"errored", "destroyed"} =>
            /\ headers[r].present = << >>
            /\ Len(headers[r].missing) = 6
            /\ Range(headers[r].missing) = HeaderNames
            /\ headers[r].score = 0
            /\ scanP[r] = "fulfilled" =>
                  /\ report[r].securityScore
                        = sslTerm(ssl[r]).score + portsTerm(ports[r]).score
                  /\ { "Add Content-Security-Policy header to prevent XSS attacks",
                       "Enable X-Frame-Options to prevent clickjacking",
                       "Add Strict-Transport-Security header for HTTPS enforcement" }
                        \subseteq Range(report[r].recommendations)

\* a report made after the header request timed out
C8Witness ==
    \E r \in Req :
        /\ headersReq[r] = "destroyed"
        /\ scanP[r] = "fulfilled"
        /\ ssl[r].valid

\* the record is the SCANNING placeholder until scanURL has been invoked
C9PlaceholderBeforeScan ==
    \A r \in Req :
        /\ scanP[r] # "none" => scanId[r] \in DOMAIN scans
        /\ pc[r] = "created" =>
            /\ scanP[r] = "none"
            /\ scanId[r] \in DOMAIN scans
            /\ scans[scanId[r]].overallRisk = "SCANNING"
            /\ scans[scanId[r]].securityScore = 0
            /\ scans[scanId[r]].ssl = [valid |-> FALSE, daysRemaining |-> Undefined,
                                       issuer |-> "undefined", expires |-> "undefined",
                                       error |-> "undefined"]
            /\ scans[scanId[r]].headers = [missing |-> << >>, present |-> << >>, score |-> 0]
            /\ scans[scanId[r]].ports = [open |-> << >>, closed |-> << >>, total |-> 0]
            /\ scans[scanId[r]].recommendations = << >>
            /\ scans[scanId[r]].completed = FALSE

\* a record is updated at most once, and is completed exactly when it was
C9UpdatedOnce ==
    \A id \in DOMAIN scans :
        /\ updated[id] <= 1
        /\ scans[id].completed <=> updated[id] = 1
        /\ scans[id].completed =>
              scans[id].overallRisk \in {"LOW RISK", "MEDIUM RISK", "HIGH RISK", "ERROR"}
        /\ ~scans[id].completed => scans[id].overallRisk = "SCANNING"

\* C9: a record is stored as the SCANNING placeholder (score 0, empty
\* findings, completed = false) before scanURL is invoked; it is then
\* updated exactly once, to completed = true with a risk of LOW, MEDIUM,
\* HIGH or ERROR; completed never goes back to false; and with the scan
\* settling, the update eventually happens.  Requests run concurrently.
C9ScanLifecycle ==
    /\ [](C9PlaceholderBeforeScan /\ C9UpdatedOnce)
    /\ [][\A id \in DOMAIN scans : scans[id].completed => scans'[id].completed]_vars
    /\ \A r \in Req :
          (pc[r] = "created") ~>
              (pc[r] = "done" /\ scanId[r] \in DOMAIN scans /\ scans[scanId[r]].completed)

\* the scan created last has completed while the one created first is
\* still being scanned
C9Witness ==
    \E r1, r2 \in Req :
        /\ scanId[r2] > 0
        /\ scanId[r1] > scanId[r2]
        /\ scans[scanId[r1]].completed
        /\ updated[scanId[r1]] = 1
        /\ pc[r2] = "scanning"
        /\ scans[scanId[r2]].overallRisk = "SCANNING"

C11EveryScanResolves ==
    \A r \in Req :
        (pc[r] = "created") ~>
            (/\ sslP[r] = "fulfilled"
             /\ headersP[r] = "fulfilled"
             /\ portsP[r] = "fulfilled"
             /\ scanP[r] = "fulfilled")

\* the part of C11 that is about termination alone: every probe of a call
\* settles and scanURL settles, fulfilled or rejected
C11EveryScanSettles ==
    \A r \in Req :
        (pc[r] = "created") ~>
            (/\ sslP[r] \in {"fulfilled", "rejected"}
             /\ headersP[r] \in {"fulfilled", "rejected"}
             /\ portsP[r] \in {"fulfilled", "rejected"}
             /\ scanP[r] \in {"fulfilled", "rejected"})

InvocationChanged(r) ==
    \/ << scanP[r], report[r], sslP[r], ssl[r], tlsSocket[r], headersP[r],
          headers[r], headersReq[r], portsP[r], ports[r] >>'
         # << scanP[r], report[r], sslP[r], ssl[r], tlsSocket[r], headersP[r],
              headers[r], headersReq[r], portsP[r], ports[r] >>
    \/ /\ scanId[r] \in DOMAIN scans
       /\ scans'[scanId[r]] # scans[scanId[r]]

\* the report and the record of a resolved call hold the findings of that
\* call
OwnFindingsReported ==
    \A r \in Req :
        scanP[r] = "fulfilled" =>
            /\ report[r] = calculateRisk(ssl[r], headers[r], ports[r])
            /\ scans[scanId[r]].ssl = ssl[r]
            /\ scans[scanId[r]].headers = headers[r]
            /\ scans[scanId[r]].ports = ports[r]
            /\ scans[scanId[r]].securityScore = report[r].securityScore
            /\ scans[scanId[r]].recommendations = report[r].recommendations

\* C13: concurrent scanURL calls on the one scanner instance are
\* independent: no step changes what belongs to two calls, so no event of
\* one call changes the findings, the report or the record of another, and
\* what a call reports are its own findings (the checklist the failure path
\* hands out as `missing` included).
C13InvocationsAreIndependent ==
    /\ [][\A r1, r2 \in Req :
            r1 # r2 => ~(InvocationChanged(r1) /\ InvocationChanged(r2))]_vars
    /\ []OwnFindingsReported

\* two resolved calls: one got all its answers, the other timed out on TLS
\* and got an error on its header request while the first was in flight
C13Witness ==
    \E r1, r2 \in Req :
        /\ scanP[r1] = "fulfilled" /\ scanP[r2] = "fulfilled"
        /\ headersReq[r1] = "responded" /\ headers[r1].missing = << >>
        /\ headersReq[r2] = "errored" /\ headers[r2].missing = securityHeaders
        /\ ssl[r1].valid /\ ~ssl[r2].valid
        /\ report[r1].securityScore = 100
        /\ report[r2].securityScore = 20
        /\ scans[scanId[r1]].headers.missing = << >>

\* C14: the SSL term is 40 for a valid finding with more than 30 days left;
\* 25, with the renewal message, for a valid finding with 1 to 30 days
\* left; and 0 otherwise.  The fix message is emitted exactly when valid is
\* false: a valid finding with no days left, or no day count, adds 0 and
\* gets no SSL message.
C14SSLTerm ==
    riskPc \in {"done", "again"} =>
        LET valid == riskIn.ssl.valid
            d == riskIn.ssl.daysRemaining
            term == riskOut.securityScore
                      - headersTerm(riskIn.headers).score
                      - portsTerm(riskIn.ports).score
            recs == Range(riskOut.recommendations)
            renew == "SSL certificate expires soon - consider renewal"
            fix == "Fix SSL certificate issues - critical security vulnerability"
            long == valid /\ d.tag = "number" /\ d.n > 30
            soon == valid /\ d.tag = "number" /\ 0 < d.n /\ d.n <= 30
        IN  /\ long => term = 40 /\ renew \notin recs
            /\ soon => term = 25 /\ renew \in recs
            /\ ~long /\ ~soon => term = 0 /\ renew \notin recs
            /\ fix \in recs <=> ~valid

\* a valid certificate with exactly 30 days left
C14Witness ==
    /\ riskPc = "done"
    /\ riskIn.ssl.valid
    /\ riskIn.ssl.daysRemaining = Num(30)
    /\ riskOut.recommendations[1] = "SSL certificate expires soon - consider renewal"
    /\ riskOut.securityScore = 25 + 40 + 20

\* C15: the header term is round(40 * headers.score / 100); each of the
\* messages for content-security-policy, x-frame-options and
\* strict-transport-security is emitted if and only if that header is in
\* headers.missing, whatever else is missing; and no other checklist header
\* adds a message.
C15HeaderTerm ==
    riskPc \in {"done", "again"} =>
        LET missing == Range(riskIn.headers.missing)
            term == riskOut.securityScore
                      - sslTerm(riskIn.ssl).score
                      - portsTerm(riskIn.ports).score
            recs == Range(riskOut.recommendations)
            targeted == {"content-security-policy", "x-frame-options",
                         "strict-transport-security"}
        IN  /\ IsHeaderContribution(term, riskIn.headers.score)
            /\ "Add Content-Security-Policy header to prevent XSS attacks" \in recs
                  <=> "content-security-policy" \in missing
            /\ "Enable X-Frame-Options to prevent clickjacking" \in recs
                  <=> "x-frame-options" \in missing
            /\ "Add Strict-Transport-Security header for HTTPS enforcement" \in recs
                  <=> "strict-transport-security" \in missing
            /\ Len(riskOut.recommendations)
                  = Len(sslTerm(riskIn.ssl).recs)
                      + Cardinality(missing \cap targeted)
                      + Len(portsTerm(riskIn.ports).recs)

\* x-frame-options is missing with the other two targeted headers present,
\* and the three other checklist headers are missing too
C15Witness ==
    /\ riskPc = "done"
    /\ Range(riskIn.headers.missing)
          = {"x-frame-options", "x-content-type-options", "x-xss-protection",
             "referrer-policy"}
    /\ riskIn.headers.score = 33
    /\ riskIn.ssl.valid /\ riskIn.ssl.daysRemaining = Num(90)
    /\ riskOut.recommendations = << "Enable X-Frame-Options to prevent clickjacking" >>
    /\ riskOut.securityScore = 40 + 13 + 20

\* the arrangements of a set as a sequence
Arrangements(S) ==
    {s \in [1..Cardinality(S) -> S] : Range(s) = S}

\* the five messages that are not about ports
FixedMessages ==
    { "Fix SSL certificate issues - critical security vulnerability",
      "SSL certificate expires soon - consider renewal",
      "Add Content-Security-Policy header to prevent XSS attacks",
      "Enable X-Frame-Options to prevent clickjacking",
      "Add Strict-Transport-Security header for HTTPS enforcement" }

\* C16: with unexpected = ports.open \ {80, 443}: when unexpected is empty
\* (no port open at all included) the port term is 20 and no port message
\* is emitted; otherwise the term is 10 and exactly one port message is
\* emitted, which names every port of unexpected and no other.
C16PortTerm ==
    riskPc = "done" =>
        LET unexpected == Range(riskIn.ports.open) \ {80, 443}
            term == riskOut.securityScore
                      - sslTerm(riskIn.ssl).score
                      - headersTerm(riskIn.headers).score
            recs == riskOut.recommendations
            others == Len(sslTerm(riskIn.ssl).recs)
                        + Len(headersTerm(riskIn.headers).recs)
        IN  IF unexpected = {}
            THEN /\ term = 20
                 /\ Len(recs) = others
                 /\ Range(recs) \subseteq FixedMessages
            ELSE /\ term = 10
                 /\ Len(recs) = others + 1
                 /\ \A i \in 1..others : recs[i] \in FixedMessages
                 /\ \E named \in Arrangements(unexpected) :
                       recs[Len(recs)]
                          = "Consider closing unnecessary ports: " \o join(named)

\* ports 80, 443 and 8080 are open: 10 points and a message naming 8080
C16Witness ==
    /\ riskPc = "done"
    /\ riskIn.ports.open = << 80, 443, 8080 >>
    /\ riskIn.ssl.valid /\ riskIn.ssl.daysRemaining = Num(90)
    /\ riskIn.headers.score = 100 /\ riskIn.headers.missing = << >>
    /\ riskOut.securityScore = 40 + 40 + 10
    /\ riskOut.recommendations = << "Consider closing unnecessary ports: 8080" >>

\* the elements of a set of numbers in ascending order
Ascending(S) ==
    CHOOSE s \in Arrangements(S) : \A i, j \in 1..Len(s) : i < j => s[i] < s[j]

\* C17: for every finding checkPorts produces, the port message lists the
\* unexpected open ports in ascending numeric order, comma-joined.
C17PortsNamedAscending ==
    riskPc = "done" =>
        LET unexpected == Range(riskIn.ports.open) \ {80, 443}
            recs == riskOut.recommendations
        IN  unexpected # {} =>
                recs[Len(recs)]
                    = "Consider closing unnecessary ports: "
                        \o join(Ascending(unexpected))

\* the category of a message, in the order the claim gives: SSL,
\* Content-Security-Policy, X-Frame-Options, Strict-Transport-Security,
\* ports
MessageRank(m) ==
    IF m \in { "Fix SSL certificate issues - critical security vulnerability",
               "SSL certificate expires soon - consider renewal" } THEN 1
    ELSE IF m = "Add Content-Security-Policy header to prevent XSS attacks" THEN 2
    ELSE IF m = "Enable X-Frame-Options to prevent clickjacking" THEN 3
    ELSE IF m = "Add Strict-Transport-Security header for HTTPS enforcement" THEN 4
    ELSE 5

\* C18: in every list calculateRisk returns the messages come in the order
\* SSL (at most one), Content-Security-Policy, X-Frame-Options,
\* Strict-Transport-Security, ports: no message of a later category comes
\* before one of an earlier category.
C18MessagesInFixedOrder ==
    riskPc = "done" =>
        \A i, j \in 1..Len(riskOut.recommendations) :
            i < j => MessageRank(riskOut.recommendations[i])
                        < MessageRank(riskOut.recommendations[j])

\* a list with a message of every category
C18Witness ==
    /\ riskPc = "done"
    /\ Len(riskOut.recommendations) = 5
    /\ riskIn.ports.open = << 8080, 3000 >>
    /\ riskOut.recommendations[1]
          = "Fix SSL certificate issues - critical security vulnerability"
    /\ riskOut.recommendations[5]
          = "Consider closing unnecessary ports: 8080, 3000"

\* a request whose body failed validation has been answered 400 and
\* nothing else, has no record and has not reached the scanner; the store
\* holds one record per accepted request
InvalidBodyLeavesNoTrace ==
    /\ \A r \in Req :
          protocol[r] = "invalid" =>
              /\ responses[r] = << 400 >>
              /\ pc[r] = "done"
              /\ scanId[r] = 0
              /\ scanP[r] = "none"
              /\ sslP[r] = "none" /\ headersP[r] = "none" /\ portsP[r] = "none"
              /\ tlsSocket[r] = "none" /\ headersReq[r] = "none"
    /\ Cardinality(DOMAIN scans)
          = Cardinality({r \in Req : protocol[r] \notin {"none", "invalid"}})

\* C19: POST /api/scans with a body whose url is not a valid URL is
\* answered 400 (validation failed); the step leaves the storage as it was,
\* no record is created for the request and the scanner is never invoked
\* for it.
C19InvalidUrlIsRejected ==
    /\ []InvalidBodyLeavesNoTrace
    /\ [][\A r \in Req :
            (protocol[r] # "invalid" /\ protocol'[r] = "invalid")
                => UNCHANGED << scans, currentId, updated >>]_vars

\* an invalid body was answered 400 while the record of an earlier request
\* is the only one in the store
C19Witness ==
    \E r1, r2 \in Req :
        /\ protocol[r1] = "invalid"
        /\ responses[r1] = << 400 >>
        /\ pc[r2] = "scanning"
        /\ DOMAIN scans = {scanId[r2]}

\* C20: when the configured database is unavailable (initializeDatabase
\* failed), the storage calls that follow are served by MemStorage: no
\* request fails on the database, and every accepted request gets its
\* record.
C20FallsBackToMemStorage ==
    dbInit = "failed" =>
        /\ storage = "MemStorage"
        /\ \A r \in Req :
              /\ 500 \notin Range(responses[r])
              /\ (pc[r] \notin {"idle", "off"} /\ protocol[r] # "invalid")
                    => scanId[r] \in DOMAIN scans

\* C21: a checklist header is classified as present if and only if it
\* exists in the response, whatever its value: one sent with an empty value
\* is in present, not in missing.
C21PresentIffSent ==
    cbPc = "done" =>
        \A h \in HeaderNames :
            /\ h \in Range(cbFinding.present) <=> cbHeaders[h] # "absent"
            /\ h \in Range(cbFinding.missing) <=> cbHeaders[h] = "absent"

\* C22: each port of the probe set is in open if and only if the first
\* event of its own socket was connect; a port whose first event was
\* timeout or error is in closed; whatever the other five sockets did, and
\* in whatever order.
C22OpenIffOwnConnect ==
    portsPc = "returned" =>
        \A i \in PortIdx :
            /\ commonPorts[i] \in Range(portsOut.open) <=> portEvent[i] = "connect"
            /\ portEvent[i] \in {"timeout", "error"}
                  => commonPorts[i] \in Range(portsOut.closed)

\* 443 connected after 80 had timed out and before 8080 got an error
C22Witness ==
    /\ portsPc = "returned"
    /\ portEvent[1] = "timeout" /\ portEvent[2] = "connect" /\ portEvent[3] = "error"
    /\ portsOut.open = << 443 >>
    /\ Len(portsOut.closed) = 5

\* C23: in every finding checkSSL returns, on every path, error is present
\* if and only if valid is false.
C23ErrorIffNotValid ==
    \A r \in Req :
        sslP[r] = "fulfilled" =>
            (ssl[r].error # "undefined" <=> ~ssl[r].valid)

\* the connection timed out: valid is false and the error is set
C23Witness ==
    \E r \in Req :
        /\ sslP[r] = "fulfilled"
        /\ protocol[r] = "https:"
        /\ tlsSocket[r] = "destroyed"
        /\ tlsPeer[r] = << >>
        /\ ssl[r].error = "Connection timeout"
        /\ ~ssl[r].valid

\* C24: when the handshake succeeds with a chain that is not verified,
\* checkSSL does not fail the connection: it returns valid = false with the
\* verification failure as error, and still reports daysRemaining, issuer
\* and expires from the peer certificate; valid = true is returned only for
\* a verified chain.
C24UnverifiedChainIsReported ==
    \A r \in Req :
        /\ tlsPeer[r] # << >> =>
              LET cert == tlsPeer[r][1]
              IN  /\ sslP[r] = "fulfilled"
                  /\ tlsSocket[r] = "destroyed"
                  /\ ssl[r].valid <=> cert.authorized
                  /\ ~cert.authorized => ssl[r].error = "authorizationError"
                  /\ cert.hasCert =>
                        /\ ssl[r].daysRemaining = Num(cert.days)
                        /\ ssl[r].issuer = "CN"
                        /\ ssl[r].expires = "valid_to"
        /\ (sslP[r] = "fulfilled" /\ ssl[r].valid) =>
              /\ tlsPeer[r] # << >>
              /\ tlsPeer[r][1].authorized

\* an unverified certificate with 90 days left
C24Witness ==
    \E r \in Req :
        /\ tlsPeer[r] = << [hasCert |-> TRUE, days |-> 90, authorized |-> FALSE] >>
        /\ ~ssl[r].valid
        /\ ssl[r].daysRemaining = Num(90)
        /\ ssl[r].error = "authorizationError"
        /\ tlsSocket[r] = "destroyed"

\* C25: every probe releases what it opened on every exit path: once
\* checkSSL has settled its TLS socket has been destroyed, and once
\* checkHeaders has settled its request has been destroyed.
C25SettledProbeHasReleased ==
    \A r \in Req :
        /\ (sslP[r] = "fulfilled" /\ tlsSocket[r] # "none")
              => tlsSocket[r] = "destroyed"
        /\ (headersP[r] = "fulfilled" /\ headersReq[r] # "none")
              => headersReq[r] = "destroyed"

\* the three probes of the https: request r have failed: the TLS socket got
\* an error or timed out, the header request got an error or timed out,
\* and no port connected
AllProbesFailed(r) ==
    /\ protocol[r] = "https:"
    /\ sslP[r] = "fulfilled"
    /\ \/ tlsSocket[r] = "errored"
       \/ tlsSocket[r] = "destroyed" /\ tlsPeer[r] = << >>
                                     /\ ssl[r].error = "Connection timeout"
    /\ headersP[r] = "fulfilled"
    /\ headersReq[r] \in {"errored", "destroyed"}
    /\ portsP[r] = "fulfilled"
    /\ ports[r].open = << >>

\* C26: when all three probes fail for an https: target, scanURL does not
\* reject: it resolves with securityScore 20 (0 + 0 + 20), HIGH RISK and
\* exactly the SSL-fix, Content-Security-Policy, X-Frame-Options and
\* Strict-Transport-Security messages, without a port message; timeouts and
\* errors give the same report.
C26AllProbesFailedReport ==
    \A r \in Req :
        AllProbesFailed(r) =>
            /\ scanP[r] \in {"pending", "fulfilled"}
            /\ scanP[r] = "fulfilled" =>
                  /\ report[r].securityScore = 20
                  /\ report[r].overallRisk = "HIGH RISK"
                  /\ report[r].recommendations
                        = << "Fix SSL certificate issues - critical security vulnerability",
                             "Add Content-Security-Policy header to prevent XSS attacks",
                             "Enable X-Frame-Options to prevent clickjacking",
                             "Add Strict-Transport-Security header for HTTPS enforcement" >>

\* a report after an error on the TLS socket, a timeout of the header
\* request and six closed ports
C26Witness ==
    \E r \in Req :
        /\ AllProbesFailed(r)
        /\ tlsSocket[r] = "errored"
        /\ headersReq[r] = "destroyed"
        /\ Len(ports[r].closed) = 6
        /\ scanP[r] = "fulfilled"
        /\ report[r].securityScore = 20

\* C27: createScan gives every stored record an id that no other stored
\* record has, also with createScan calls in flight concurrently, so that
\* no record is updated by two scans.
C27IdsAreDistinct ==
    /\ \A i, j \in 1..Len(mongoCollection) :
          i # j => mongoCollection[i].id # mongoCollection[j].id
    /\ \A i \in 1..Len(mongoCollection) :
          Len(mongoCollection[i].updatedBy) <= 1

\* the part of C27 about MemStorage: requests that have a record have
\* different ids, each below currentId
MemStorageIdsAreDistinct ==
    \A r1, r2 \in Req :
        /\ scanId[r1] # 0 => scanId[r1] \in DOMAIN scans /\ scanId[r1] < currentId
        /\ (r1 # r2 /\ scanId[r1] # 0) => scanId[r1] # scanId[r2]

C29InvalidSSLCapsTheReport ==
    \A r \in Req :
        scanP[r] = "fulfilled" =>
            /\ report[r].overallRisk \in {"LOW RISK", "MEDIUM RISK", "HIGH RISK"}
            /\ ~ssl[r].valid =>
                  /\ report[r].securityScore <= 60
                  /\ report[r].overallRisk # "LOW RISK"
            /\ protocol[r] # "https:" => ~ssl[r].valid

\* an https: scan whose certificate has more than 30 days left but did not
\* verify, with every checklist header sent and no unexpected port open
C29Witness ==
    \E r \in Req :
        /\ protocol[r] = "https:"
        /\ scanP[r] = "fulfilled"
        /\ ~ssl[r].valid
        /\ TruthyAndGreater(ssl[r].daysRemaining, 30)
        /\ report[r].securityScore = 60
        /\ report[r].overallRisk = "MEDIUM RISK"

\* C30: in checkSSL, checkHeaders and checkPort the finding is fixed by the
\* first event of the socket or request: once the promise is settled, no
\* later event (a timeout after an error or a response, an error after a
\* destroy) changes its value, and the value checkPorts has returned does
\* not change either.
C30FirstEventFixesTheFinding ==
    [][/\ \A r \in Req :
            /\ sslP[r] = "fulfilled" => sslP'[r] = "fulfilled" /\ ssl'[r] = ssl[r]
            /\ headersP[r] = "fulfilled" =>
                  headersP'[r] = "fulfilled" /\ headers'[r] = headers[r]
       /\ \A i \in PortIdx :
            portPromise[i] \in PortResults => portPromise'[i] = portPromise[i]
       /\ portsPc = "returned" => portsOut' = portsOut]_vars

\* a scan whose TLS socket timed out after its error and whose header
\* request failed after its response, and a port whose socket emitted an
\* error after connect: the three findings are those of the first events
C30Witness ==
    /\ \E r \in Req :
        /\ << "checkSSL", r, "timeout" >> \in lateEvents
        /\ ssl[r] = SSLSocketError
        /\ {<< "checkHeaders", r, "timeout" >>, << "checkHeaders", r, "error" >>}
              \subseteq lateEvents
        /\ headers[r].score = 100
        /\ scanP[r] = "fulfilled"
    /\ \E i \in PortIdx :
        /\ << "checkPort", i, "error" >> \in lateEvents
        /\ portEvent[i] = "connect"
        /\ portPromise[i] = "true"
        /\ portsPc = "returned"
        /\ includes(portsOut.open, commonPorts[i])

====
